---------------------------- MODULE Spec2Model ----------------------------
(***************************************************************************)
(* Column profiling and fake-example generation of analyze_excel.py:       *)
(* analyze_column and generate_fake_data, with the pandas operations they  *)
(* use (dropna, unique, astype(str), infer_objects, the dtype predicates). *)
(*                                                                         *)
(* A Python string is a sequence of one-character strings, so that lower,  *)
(* strip and the substring test "in" are computed and not assumed.         *)
(* A cell value is a record                                                *)
(*   [py  : the Python type of the object ("float", "int", "datetime",     *)
(*          "str"),                                                        *)
(*    na  : what pd.isna answers for it (NaN and NaT),                     *)
(*    n   : the number or the day of a date (0 otherwise),                 *)
(*    s   : the characters of a str (<<>> otherwise),                      *)
(*    gen : "" for a value read from the sheet or a literal of the code,   *)
(*          the Faker / numpy call that produced it for a generated one]   *)
(* A generated string stands for "the d-th draw of that provider": its n   *)
(* is the state of the shared generator when it was drawn.                 *)
(***************************************************************************)
EXTENDS Naturals, Sequences, FiniteSets

\* ------------------------------------------------------------ configuration
CATEGORICAL_THRESHOLD == 15
EXAMPLE_COUNT == 5
SAMPLE_SIZE == 50

\* Longest sample enumerated exhaustively (longer ones are the fixed samples).
MaxRows == 2
\* Number of states of the shared fake-data / random generator.
RngMod == 2

\* ------------------------------------------------------------------ strings
UpperToLower ==
    [c \in {"A","B","C","D","E","F","G","H","I","J","K","L","M","N","O","P",
            "Q","R","S","T","U","V","W","X","Y","Z","Å","Ä","Ö"} |->
        CASE c = "A" -> "a" [] c = "B" -> "b" [] c = "C" -> "c" [] c = "D" -> "d"
          [] c = "E" -> "e" [] c = "F" -> "f" [] c = "G" -> "g" [] c = "H" -> "h"
          [] c = "I" -> "i" [] c = "J" -> "j" [] c = "K" -> "k" [] c = "L" -> "l"
          [] c = "M" -> "m" [] c = "N" -> "n" [] c = "O" -> "o" [] c = "P" -> "p"
          [] c = "Q" -> "q" [] c = "R" -> "r" [] c = "S" -> "s" [] c = "T" -> "t"
          [] c = "U" -> "u" [] c = "V" -> "v" [] c = "W" -> "w" [] c = "X" -> "x"
          [] c = "Y" -> "y" [] c = "Z" -> "z" [] c = "Å" -> "å" [] c = "Ä" -> "ä"
          [] c = "Ö" -> "ö"]

\* str.lower()
lower(s) ==
    [i \in 1..Len(s) |-> IF s[i] \in DOMAIN UpperToLower THEN UpperToLower[s[i]] ELSE s[i]]

\* Python's  needle in hay  on strings: needle occurs as a contiguous substring.
StrIn(needle, hay) ==
    \E i \in 0..Len(hay) :
        /\ i + Len(needle) <= Len(hay)
        /\ \A j \in 1..Len(needle) : hay[i + j] = needle[j]

Whitespace == {" ", "\t", "\n"}

\* str.strip(): leading and trailing whitespace removed.
strip(s) ==
    LET keep == {i \in 1..Len(s) : s[i] \notin Whitespace}
    IN  IF keep = {} THEN <<>>
        ELSE LET lo == CHOOSE i \in keep : \A j \in keep : i <= j
                 hi == CHOOSE i \in keep : \A j \in keep : j <= i
             IN  SubSeq(s, lo, hi)

DigitChar(d) ==
    CASE d = 0 -> "0" [] d = 1 -> "1" [] d = 2 -> "2" [] d = 3 -> "3" [] d = 4 -> "4"
      [] d = 5 -> "5" [] d = 6 -> "6" [] d = 7 -> "7" [] d = 8 -> "8" [] d = 9 -> "9"

RECURSIVE IntStr(_)
\* str() of a non-negative int
IntStr(k) == IF k < 10 THEN <<DigitChar(k)>> ELSE IntStr(k \div 10) \o <<DigitChar(k % 10)>>

\* ------------------------------------------------------------------- values
NaN == [py |-> "float", na |-> TRUE, n |-> 0, s |-> <<>>, gen |-> ""]
NaT == [py |-> "datetime", na |-> TRUE, n |-> 0, s |-> <<>>, gen |-> ""]
Num(k) == [py |-> "int", na |-> FALSE, n |-> k, s |-> <<>>, gen |-> ""]
Date(k) == [py |-> "datetime", na |-> FALSE, n |-> k, s |-> <<>>, gen |-> ""]
Text(t) == [py |-> "str", na |-> FALSE, n |-> 0, s |-> t, gen |-> ""]
\* A string returned by a Faker provider or by numpy's generator.
Generated(provider, k) == [py |-> "str", na |-> FALSE, n |-> k, s |-> <<>>, gen |-> provider]

\* str(val)
str(v) ==
    CASE v.py = "str" -> v.s
      [] v.py = "float" /\ v.na -> <<"n", "a", "n">>
      [] v.py = "datetime" /\ v.na -> <<"N", "a", "T">>
      [] v.py = "datetime" -> <<"2", "0", "2", "4", "-", "0", "1", "-">> \o IntStr(v.n)
      [] OTHER -> IntStr(v.n)

\* pd.isna(val)
isna(v) == v.na

\* ------------------------------------------------------------------- pandas
\* A Series is [vals |-> the values in row order, dtype |-> its dtype].

\* Series.dropna(): the rows pd.isna answers FALSE for; the dtype is kept.
\* A blank string is not NA and stays.
dropna(series) ==
    [vals |-> SelectSeq(series.vals, LAMBDA v : ~isna(v)), dtype |-> series.dtype]

\* The r-th smallest element of a set of row numbers.
NthRow(rows, r) == CHOOSE j \in rows : Cardinality({p \in rows : p <= j}) = r

\* unique() keeping each value at its last row instead of its first.
unique_by_last_row(vals) ==
    LET lasts == {j \in 1..Len(vals) : \A i \in (j + 1)..Len(vals) : vals[i] # vals[j]}
    IN  [r \in 1..Cardinality(lasts) |-> vals[NthRow(lasts, r)]]

\* Series.unique(): the distinct values, in order of first appearance.
unique(vals) ==
    LET firsts == {j \in 1..Len(vals) : \A i \in 1..(j - 1) : vals[i] # vals[j]}
    IN  [r \in 1..Cardinality(firsts) |-> vals[NthRow(firsts, r)]]

\* pd.api.types.is_string_dtype(dtype), given a dtype (not an array): the
\* object dtype answers True whatever Python objects the column holds.
is_string_dtype(dtype) == dtype \in {"object", "string"}

\* pd.api.types.is_numeric_dtype(dtype)
is_numeric_dtype(dtype) == dtype \in {"int64", "float64"}

\* pd.api.types.is_datetime64_any_dtype(dtype)
is_datetime64_any_dtype(dtype) == dtype = "datetime64[ns]"

\* Series.astype(str): every value becomes its str(); the dtype is object.
astype_str(series) ==
    LET vals == series.vals
    IN  [vals |-> [i \in 1..Len(vals) |->
                      [py |-> "str", na |-> FALSE, n |-> 0, s |-> str(vals[i]),
                       gen |-> vals[i].gen]] \o <<>>,
         dtype |-> "object"]

\* Series.infer_objects().dtype: a soft conversion of an object column by the
\* Python type of its elements; strings are never parsed into numbers or dates.
infer_objects_dtype(series) ==
    LET vs == series.vals
    IN  IF series.dtype # "object" \/ vs = <<>> THEN series.dtype
        ELSE IF \A i \in 1..Len(vs) : vs[i].py = "int" THEN "int64"
        ELSE IF \A i \in 1..Len(vs) : vs[i].py \in {"int", "float"} THEN "float64"
        ELSE IF \A i \in 1..Len(vs) : vs[i].py = "datetime" THEN "datetime64[ns]"
        ELSE "object"

\* Series.min() / Series.max() over the numbers the values carry.
series_min(series) ==
    LET ns == {series.vals[i].n : i \in 1..Len(series.vals)}
    IN  CHOOSE a \in ns : \A b \in ns : a <= b

series_max(series) ==
    LET ns == {series.vals[i].n : i \in 1..Len(series.vals)}
    IN  CHOOSE a \in ns : \A b \in ns : b <= a

\* ------------------------------------------------------ generate_fake_data
namn == <<"n", "a", "m", "n">>
kund == <<"k", "u", "n", "d">>
foretag == <<"f", "ö", "r", "e", "t", "a", "g">>
epost == <<"e", "p", "o", "s", "t">>
email == <<"e", "m", "a", "i", "l">>
telefon == <<"t", "e", "l", "e", "f", "o", "n">>
mobil == <<"m", "o", "b", "i", "l">>
adress == <<"a", "d", "r", "e", "s", "s">>
personnummer == <<"p", "e", "r", "s", "o", "n", "n", "u", "m", "m", "e", "r">>
nummer == <<"n", "u", "m", "m", "e", "r">>
id == <<"i", "d">>
datum == <<"d", "a", "t", "u", "m">>

\* The if-chain with the "nummer"/"id" test ahead of the "personnummer" test.
fake_provider_number_first(series, col_name) ==
    LET strs == astype_str(dropna(series))
        col_name_lower == lower(col_name)
    IN  IF StrIn(namn, col_name_lower) \/ StrIn(kund, col_name_lower) THEN "name"
        ELSE IF StrIn(foretag, col_name_lower) THEN "company"
        ELSE IF StrIn(epost, col_name_lower) \/ StrIn(email, col_name_lower) THEN "email"
        ELSE IF StrIn(telefon, col_name_lower) \/ StrIn(mobil, col_name_lower)
             THEN "phone_number"
        ELSE IF StrIn(adress, col_name_lower) THEN "address"
        ELSE IF StrIn(nummer, col_name_lower) \/ StrIn(id, col_name_lower)
             THEN "random_number"
        ELSE IF StrIn(personnummer, col_name_lower) THEN "ssn"
        ELSE IF StrIn(datum, col_name_lower) THEN "date"
        ELSE IF is_numeric_dtype(infer_objects_dtype(strs)) THEN "uniform"
        ELSE IF is_datetime64_any_dtype(infer_objects_dtype(strs)) THEN "date"
        ELSE "word"

\* The provider generate_fake_data(series, col_name) draws from: the first
\* branch of its if-chain whose test holds.
fake_provider(series, col_name) ==
    LET strs == astype_str(dropna(series))
        col_name_lower == lower(col_name)
    IN  IF StrIn(namn, col_name_lower) \/ StrIn(kund, col_name_lower) THEN "name"
        ELSE IF StrIn(foretag, col_name_lower) THEN "company"
        ELSE IF StrIn(epost, col_name_lower) \/ StrIn(email, col_name_lower) THEN "email"
        ELSE IF StrIn(telefon, col_name_lower) \/ StrIn(mobil, col_name_lower)
             THEN "phone_number"
        ELSE IF StrIn(adress, col_name_lower) THEN "address"
        ELSE IF StrIn(personnummer, col_name_lower) THEN "ssn"
        ELSE IF StrIn(nummer, col_name_lower) \/ StrIn(id, col_name_lower)
             THEN "random_number"
        ELSE IF StrIn(datum, col_name_lower) THEN "date"
        ELSE IF is_numeric_dtype(infer_objects_dtype(strs)) THEN "uniform"
        ELSE IF is_datetime64_any_dtype(infer_objects_dtype(strs)) THEN "date"
        ELSE "word"

\* generate_fake_data(series, col_name) with the shared generator in state g:
\* the string returned.  Every branch draws once from the generator.
generate_fake_data(series, col_name, g) ==
    LET provider == fake_provider(series, col_name)
        strs == astype_str(dropna(series))
    IN  IF provider = "uniform"
        THEN LET lo == series_min(strs)
                 hi == series_max(strs)
             IN  Generated("uniform", lo + (g % (hi - lo + 1)))
        ELSE Generated(provider, g)

\* ----------------------------------------------------------- analyze_column
\* The loop's tests with the isinstance test for numbers ahead of pd.isna.
kind_of_number_first(val) ==
    IF val.py \in {"int", "float"} THEN "Tal"
    ELSE IF isna(val) \/ strip(str(val)) = <<>> THEN "Tom"
    ELSE IF val.py = "datetime" THEN "Datum"
    ELSE "Text"

\* The branch of the type-counting loop a value takes.
kind_of(val) ==
    IF isna(val) \/ strip(str(val)) = <<>> THEN "Tom"
    ELSE IF val.py \in {"int", "float"} THEN "Tal"
    ELSE IF val.py = "datetime" THEN "Datum"
    ELSE "Text"

\* Counter.get(t, 0)
counter_get(counter, t) ==
    IF \E i \in 1..Len(counter) : counter[i].t = t
    THEN (CHOOSE e \in {counter[i] : i \in 1..Len(counter)} : e.t = t).c
    ELSE 0

\* type_counts after the loop  for val in series: type_counts[kind] += 1.
\* A Counter keeps its keys in the order they were first added, so the
\* kinds come in the order of the first row of each, each with its row count.
count_types(vals) ==
    LET kinds == [i \in 1..Len(vals) |-> kind_of(vals[i])] \o <<>>
        firsts == {j \in 1..Len(vals) : \A i \in 1..(j - 1) : kinds[i] # kinds[j]}
    IN  [r \in 1..Cardinality(firsts) |->
            LET t == kinds[NthRow(firsts, r)]
            IN  [t |-> t, c |-> Cardinality({i \in 1..Len(vals) : kinds[i] = t})]]

\* f"{c/total_rows:.0%}": the nearest whole percent.  An exact half goes to
\* the even neighbour, except 23/40, whose double times 100 lies below 57.5
\* (the only such case for total_rows <= SAMPLE_SIZE).
percent(c, total_rows) ==
    LET q == (100 * c) \div total_rows
        r == (100 * c) % total_rows
    IN  IF 2 * r > total_rows THEN q + 1
        ELSE IF 2 * r < total_rows THEN q
        ELSE IF c = 23 /\ total_rows = 40 THEN q
        ELSE IF q % 2 = 1 THEN q + 1
        ELSE q

\* type_summary: one "kind (percent)" per key of type_counts, in its order.
summarize(type_counts, total_rows) ==
    [i \in 1..Len(type_counts) |->
        [t |-> type_counts[i].t, pct |-> percent(type_counts[i].c, total_rows)]]

\* is_categorical
is_categorical(unique_values, non_empty_series) ==
    /\ Len(unique_values) <= CATEGORICAL_THRESHOLD
    /\ Len(unique_values) > 0
    /\ is_string_dtype(non_empty_series.dtype)

\* list(unique_values[:EXAMPLE_COUNT])
categorical_examples(unique_values) ==
    SubSeq(unique_values, 1,
           IF Len(unique_values) < EXAMPLE_COUNT THEN Len(unique_values) ELSE EXAMPLE_COUNT)

\* The loop  for _ in range(EXAMPLE_COUNT): examples.append(generate_fake_data(...))
\* started with the generator in state g; each call advances it by one.
fake_examples(non_empty_series, col_name, g) ==
    [i \in 1..EXAMPLE_COUNT |->
        generate_fake_data(non_empty_series, col_name, (g + i - 1) % RngMod)]

\* round() in place of int(): the nearest number of markers.
num_empty_rounded(type_counts, total_rows) ==
    (2 * counter_get(type_counts, "Tom") * EXAMPLE_COUNT + total_rows) \div (2 * total_rows)

\* int(type_counts.get("Tom", 0) / total_rows * EXAMPLE_COUNT): the double
\* product truncates to floor(tom * EXAMPLE_COUNT / total_rows) for every
\* tom <= total_rows <= SAMPLE_SIZE.
num_empty_to_add(type_counts, total_rows) ==
    (counter_get(type_counts, "Tom") * EXAMPLE_COUNT) \div total_rows

tom == Text(<<"(", "t", "o", "m", ")">>)

\* The markers appended without removing the first k examples.
reflect_empty_append_only(examples, k) ==
    examples \o [i \in 1..k |-> tom]

\* examples = examples[k:] followed by k appends of "(tom)".
reflect_empty(examples, k) ==
    SubSeq(examples, k + 1, Len(examples)) \o [i \in 1..k |-> tom]

Kategorisk == "Kategorisk"
Varierande == "Varierande/Känslig data"

\* analyze_column past its zero-row return, with is_categorical = cat.
profile_column(series, col_name, g, cat) ==
    LET total_rows == Len(series.vals)
        type_counts == count_types(series.vals)
        non_empty_series == dropna(series)
        unique_values == unique(non_empty_series.vals)
        examples == IF cat THEN categorical_examples(unique_values)
                    ELSE fake_examples(non_empty_series, col_name, g)
        k == num_empty_to_add(type_counts, total_rows)
    IN  [type_counts |-> type_counts,
         type_summary |-> summarize(type_counts, total_rows),
         examples |-> reflect_empty(examples, k),
         analysis_note |-> IF cat THEN [label |-> Kategorisk, n |-> Len(unique_values)]
                           ELSE [label |-> Varierande, n |-> 0],
         fake_calls |-> IF cat THEN 0 ELSE EXAMPLE_COUNT,
         rng |-> IF cat THEN g ELSE (g + EXAMPLE_COUNT) % RngMod]

\* The zero-row return of analyze_column.
empty_column(g) ==
    [type_counts |-> <<>>, type_summary |-> "Tom kolumn", examples |-> <<>>,
     analysis_note |-> [label |-> "Ingen data", n |-> 0],
     fake_calls |-> 0, rng |-> g]

\* analyze_column with a column whose name has a token of the name
\* heuristic never taken as categorical.
analyze_column_by_name(series, col_name, g) ==
    IF Len(series.vals) = 0 THEN empty_column(g)
    ELSE profile_column(series, col_name, g,
            /\ is_categorical(unique(dropna(series).vals), dropna(series))
            /\ fake_provider(series, col_name) = "word")

\* analyze_column(series, col_name), called with the generator in state g:
\* what it returns, its type_counts, the number of generate_fake_data calls
\* it made and the state it leaves the generator in.
analyze_column(series, col_name, g) ==
    IF Len(series.vals) = 0 THEN empty_column(g)
    ELSE profile_column(series, col_name, g,
            is_categorical(unique(dropna(series).vals), dropna(series)))

\* ------------------------------------------------------------------ samples
\* Values of the exhaustively enumerated samples: a missing cell, a blank
\* string, a number, a date and two texts.
Universe == {NaN, Text(<<" ">>), Num(18), Date(1), Text(<<"a">>), Text(<<"b">>)}

\* The dtypes pandas can give a column whose first rows are vals: object
\* when any row of the column (also one after the sample) is a str or the
\* kinds are mixed, a numeric or datetime dtype when the sample allows it.
DtypesOf(vals) ==
    LET rows == 1..Len(vals)
    IN  {"object"}
        \cup (IF \A i \in rows : vals[i].py = "int" THEN {"int64"} ELSE {})
        \cup (IF /\ \A i \in rows : vals[i].py \in {"int", "float"}
                 /\ \E i \in rows : vals[i].py = "float"
              THEN {"float64"} ELSE {})
        \cup (IF /\ \A i \in rows : vals[i].py = "datetime"
                 /\ vals # <<>>
              THEN {"datetime64[ns]"} ELSE {})

Stockholm == Text(<<"S", "t", "o", "c", "k", "h", "o", "l", "m">>)
Malmo == Text(<<"M", "a", "l", "m", "ö">>)
Goteborg == Text(<<"G", "ö", "t", "e", "b", "o", "r", "g">>)

\* i distinct texts c1, c2, ...
Texts(k) == [i \in 1..k |-> Text(<<"c">> \o IntStr(i))]
\* Ten distinct numeric-looking strings "900" .. "909".
NumericLooking == [i \in 1..10 |-> Text(IntStr(899 + i))]
\* 50 rows, every fifth one missing, the others numbers in 18..65.
FiftyRows == [i \in 1..SAMPLE_SIZE |-> IF i % 5 = 0 THEN NaN ELSE Num(18 + (i % 48))]

FixedSamples ==
    { [vals |-> <<Stockholm, Malmo, Stockholm, Goteborg>>, dtype |-> "object"],
      [vals |-> NumericLooking, dtype |-> "object"],
      [vals |-> <<Num(18), Num(65), Num(40), Num(65)>>, dtype |-> "int64"],
      [vals |-> FiftyRows, dtype |-> "float64"],
      [vals |-> Texts(CATEGORICAL_THRESHOLD), dtype |-> "object"],
      [vals |-> Texts(CATEGORICAL_THRESHOLD + 1), dtype |-> "object"],
      [vals |-> <<NaN, NaN>> \o Texts(EXAMPLE_COUNT + 1), dtype |-> "object"],
      [vals |-> <<Text(<<"a">>), NaN, Num(18), Date(1), Text(<<" ", " ">>), Text(<<"a">>)>>,
       dtype |-> "object"],
      [vals |-> <<Date(1), NaT, Date(2), NaT>>, dtype |-> "datetime64[ns]"] }

\* df[col].head(SAMPLE_SIZE): every sample of at most MaxRows rows over
\* Universe, under each dtype it can have, and the fixed samples.
Samples ==
    { s \in ( { [vals |-> v, dtype |-> d] :
                  v \in UNION {[1..k -> Universe] : k \in 0..MaxRows},
                  d \in {"object", "int64", "float64", "datetime64[ns]"} }
              \cup FixedSamples ) :
        /\ Len(s.vals) <= SAMPLE_SIZE
        /\ s.dtype \in DtypesOf(s.vals) }

ColNames ==
    { <<"N", "a", "m", "n">>,
      <<"K", "u", "n", "d", "n", "u", "m", "m", "e", "r">>,
      <<"F", "Ö", "R", "E", "T", "A", "G">>,
      <<"E", "p", "o", "s", "t">>,
      <<"E", "m", "a", "i", "l", "A", "d", "r", "e", "s", "s">>,
      <<"T", "e", "l", "e", "f", "o", "n">>,
      <<"M", "o", "b", "i", "l", "I", "D">>,
      <<"A", "d", "r", "e", "s", "s">>,
      <<"P", "e", "r", "s", "o", "n", "n", "u", "m", "m", "e", "r">>,
      <<"O", "r", "d", "e", "r", "n", "u", "m", "m", "e", "r">>,
      <<"D", "a", "t", "u", "m", "I", "D">>,
      <<"D", "a", "t", "u", "m">>,
      <<"Å", "l", "d", "e", "r">> }

\* -------------------------------------------------------------------- state
VARIABLES
    series,         \* the sample handed to analyze_column
    col_name,       \* the column name handed to analyze_column
    rng,            \* state of the module-level Faker / numpy generator
    pc,             \* "call": about to call analyze_column; "done": it returned
    type_counts,    \* analyze_column's Counter when it returned
    type_summary,   \* the three values it returned
    examples,
    analysis_note,
    fake_calls,     \* calls of generate_fake_data it made
    first,          \* what the first call on this sample returned
    again,          \* the call that returned is a second call on the sample
    renamed         \* the second call is under another column name

vars == <<series, col_name, rng, pc, type_counts, type_summary, examples,
          analysis_note, fake_calls, first, again, renamed>>

NoResult == [type_summary |-> <<>>, analysis_note |-> [label |-> "", n |-> 0],
             examples |-> <<>>]

Init ==
    /\ series \in Samples
    /\ col_name \in ColNames
    /\ rng \in 0..(RngMod - 1)
    /\ pc = "call"
    /\ type_counts = <<>>
    /\ type_summary = <<>>
    /\ examples = <<>>
    /\ analysis_note = [label |-> "", n |-> 0]
    /\ fake_calls = 0
    /\ first = NoResult
    /\ again = FALSE
    /\ renamed = FALSE

\* main's loop body: analyze_column(df[col].head(SAMPLE_SIZE), col)
AnalyzeColumn ==
    /\ pc = "call"
    /\ \E r \in {analyze_column(series, col_name, rng)} :
           /\ type_counts' = r.type_counts
           /\ type_summary' = r.type_summary
           /\ examples' = r.examples
           /\ analysis_note' = r.analysis_note
           /\ fake_calls' = r.fake_calls
           /\ rng' = r.rng
           /\ first' = IF again THEN first
                       ELSE [type_summary |-> r.type_summary,
                             analysis_note |-> r.analysis_note,
                             examples |-> r.examples]
    /\ pc' = "done"
    /\ UNCHANGED <<series, col_name, again, renamed>>

\* The same sample is profiled once more, under any column name, with the
\* generator in the state the calls made meanwhile have left it in.
CallAgain ==
    /\ pc = "done"
    /\ ~again
    /\ \E nm \in ColNames :
        /\ col_name' = nm
        /\ renamed' = (nm # col_name)
    /\ again' = TRUE
    /\ pc' = "call"
    /\ UNCHANGED <<series, rng, type_counts, type_summary, examples,
                   analysis_note, fake_calls, first>>

\* Another column's generate_fake_data call draws from the shared generator.
OtherDraw ==
    /\ pc = "call"
    /\ again
    /\ rng' = (rng + 1) % RngMod
    /\ UNCHANGED <<series, col_name, pc, type_counts, type_summary, examples,
                   analysis_note, fake_calls, first, again, renamed>>

Next == AnalyzeColumn \/ CallAgain \/ OtherDraw

Spec == Init /\ [][Next]_vars

\* ------------------------------------------------- vocabulary of the claims
Done == pc = "done"
Rows == 1..Len(series.vals)
Categorical == analysis_note.label = Kategorisk
Variable == analysis_note.label = Varierande

\* A value the classifier is to count Empty: missing, or a string of
\* nothing but whitespace.
Missing(v) == v.na
Blank(v) == v.py = "str" /\ \A i \in 1..Len(v.s) : v.s[i] \in Whitespace
CountedEmpty(v) == Missing(v) \/ Blank(v)
Numeric(v) == ~CountedEmpty(v) /\ v.py \in {"int", "float"}
Temporal(v) == ~CountedEmpty(v) /\ ~Numeric(v) /\ v.py = "datetime"
Textual(v) == ~CountedEmpty(v) /\ ~Numeric(v) /\ ~Temporal(v)

EmptyRows == {i \in Rows : CountedEmpty(series.vals[i])}
\* The distinct non-empty values of the sample.
NonEmptyValues == {series.vals[i] : i \in Rows \ EmptyRows}
\* The distinct values that are not missing (a blank string is one of them).
NotMissingValues == {series.vals[i] : i \in {j \in Rows : ~Missing(series.vals[j])}}
SampleValues == {series.vals[i] : i \in Rows}

\* floor(e * EXAMPLE_COUNT / n) for the e rows counted Empty of the n rows.
MarkerCount == (Cardinality(EmptyRows) * EXAMPLE_COUNT) \div Len(series.vals)

Min(a, b) == IF a < b THEN a ELSE b
Max(a, b) == IF a < b THEN b ELSE a

\* The rules of the name heuristic: the tokens of each and its generator.
NameRules ==
    << [tokens |-> {namn, kund}, provider |-> "name"],
       [tokens |-> {foretag}, provider |-> "company"],
       [tokens |-> {epost, email}, provider |-> "email"],
       [tokens |-> {telefon, mobil}, provider |-> "phone_number"],
       [tokens |-> {adress}, provider |-> "address"],
       [tokens |-> {personnummer}, provider |-> "ssn"],
       [tokens |-> {nummer, id}, provider |-> "random_number"],
       [tokens |-> {datum}, provider |-> "date"] >>

\* c and d are the same letter, whatever the case of each.
SameLetter(c, d) ==
    \/ c = d
    \/ c \in DOMAIN UpperToLower /\ UpperToLower[c] = d
    \/ d \in DOMAIN UpperToLower /\ UpperToLower[d] = c

\* token occurs in name, case ignored.
Occurs(token, name) ==
    \E off \in 0..(Len(name) - Len(token)) :
        \A j \in 1..Len(token) : SameLetter(name[off + j], token[j])

MatchingRules(name) ==
    {r \in 1..Len(NameRules) : \E tok \in NameRules[r].tokens : Occurs(tok, name)}

LowestRule(name) == CHOOSE r \in MatchingRules(name) : \A q \in MatchingRules(name) : r <= q

Personnummer == <<"P", "e", "r", "s", "o", "n", "n", "u", "m", "m", "e", "r">>
Cities == <<Stockholm, Malmo, Stockholm, Goteborg>>

\* ------------------------------------------------------------------- claims

\* C1: for every sample with at least one row, the label is Categorical(n)
\* exactly when the number n of distinct non-empty values (neither missing
\* nor blank) is in 1..CATEGORICAL_THRESHOLD and each of them is Textual;
\* in every other case the label is Variable.
C1_CategoricalIffFewTextual ==
    (Done /\ Len(series.vals) > 0) =>
        LET n == Cardinality(NonEmptyValues)
            few_textual == /\ 0 < n
                           /\ n <= CATEGORICAL_THRESHOLD
                           /\ \A v \in NonEmptyValues : Textual(v)
        IN  /\ few_textual => (Categorical /\ analysis_note.n = n)
            /\ ~few_textual => Variable

\* C2: the column "Personnummer" with ten distinct numeric-looking strings
\* is labelled Variable, every example is a generated national identity
\* number, and no example is a value of the sample.
C2_PersonnummerSynthesized ==
    (Done /\ col_name = Personnummer /\ series.vals = NumericLooking) =>
        /\ Variable
        /\ \A i \in 1..Len(examples) :
            /\ examples[i].gen = "ssn"
            /\ examples[i] \notin SampleValues

\* C3: for a Variable column whose name has none of the name tokens and
\* whose non-empty values are all numbers, every example that is not the
\* empty marker is a generated number between the least and the greatest
\* sampled number, never a fallback word.
C3_NumericExamplesInRange ==
    ( /\ Done
      /\ Variable
      /\ MatchingRules(col_name) = {}
      /\ NonEmptyValues # {}
      /\ \A v \in NonEmptyValues : Numeric(v) ) =>
        \A i \in 1..Len(examples) :
            examples[i] # tom =>
                /\ examples[i].gen = "uniform"
                /\ \E lo \in NonEmptyValues : lo.n <= examples[i].n
                /\ \E hi \in NonEmptyValues : examples[i].n <= hi.n

\* C4 as stated: the example list has exactly EXAMPLE_COUNT entries for every
\* sample with at least one row, and is empty, with no call of the
\* synthesizer, exactly when the sample has no row.
C4_LengthAlwaysExampleCount ==
    Done =>
        /\ Len(series.vals) > 0 => Len(examples) = EXAMPLE_COUNT
        /\ (Len(series.vals) = 0) <=> (examples = <<>> /\ fake_calls = 0)

\* C4 as amended: a Variable sample with at least one row gets exactly
\* EXAMPLE_COUNT examples; a Categorical sample with d distinct values that
\* are not missing and k = floor(e * EXAMPLE_COUNT / n) markers gets
\* max(min(d, EXAMPLE_COUNT), k) examples, between 1 and EXAMPLE_COUNT; the
\* list is empty exactly when the sample has no row, and then the
\* synthesizer was not called.
C4_LengthByLabel ==
    Done =>
        /\ (Len(series.vals) > 0 /\ Variable) =>
              (Len(examples) = EXAMPLE_COUNT /\ fake_calls = EXAMPLE_COUNT)
        /\ (Len(series.vals) > 0 /\ Categorical) =>
              /\ Len(examples) =
                    Max(Min(Cardinality(NotMissingValues), EXAMPLE_COUNT), MarkerCount)
              /\ 1 <= Len(examples)
              /\ Len(examples) <= EXAMPLE_COUNT
        /\ Len(series.vals) > 0 => (Variable \/ Categorical)
        /\ (Len(series.vals) = 0) <=> (examples = <<>>)
        /\ Len(series.vals) = 0 => fake_calls = 0

C4_Witness ==
    /\ Done
    /\ Categorical
    /\ Len(examples) < EXAMPLE_COUNT
    /\ MarkerCount > 0

\* C5: for a Variable sample of n >= 1 rows of which e are counted Empty,
\* the example list holds exactly k = floor(e * EXAMPLE_COUNT / n) empty
\* markers, in its last k places, and generated values before them.
C5_MarkersLast ==
    (Done /\ Len(series.vals) > 0 /\ Variable) =>
        /\ Len(examples) = EXAMPLE_COUNT
        /\ \A i \in 1..Len(examples) :
            IF i > EXAMPLE_COUNT - MarkerCount
            THEN examples[i] = tom
            ELSE examples[i] # tom /\ examples[i].gen # ""

\* Ten empty rows of fifty: one marker, in the last place.
C5_Witness ==
    /\ Done
    /\ Variable
    /\ Len(series.vals) = SAMPLE_SIZE
    /\ Cardinality(EmptyRows) = 10
    /\ examples[EXAMPLE_COUNT] = tom
    /\ \A i \in 1..(EXAMPLE_COUNT - 1) : examples[i] # tom

\* C6: a sample with at least one row, every row of which is counted Empty,
\* is labelled Variable and every example is the empty marker.
C6_AllEmptyIsVariable ==
    (Done /\ Len(series.vals) > 0 /\ EmptyRows = Rows) =>
        /\ Variable
        /\ \A i \in 1..Len(examples) : examples[i] = tom

\* C7: for a Categorical sample without an Empty row, the examples are the
\* first min(d, EXAMPLE_COUNT) of its d distinct values, in the order of
\* their first rows and without repetition.
C7_FirstOccurrenceOrder ==
    (Done /\ Categorical /\ EmptyRows = {}) =>
        LET FirstRow(v) == CHOOSE i \in Rows :
                              /\ series.vals[i] = v
                              /\ \A j \in 1..(i - 1) : series.vals[j] # v
            E == 1..Len(examples)
        IN  /\ Len(examples) = Min(Cardinality(SampleValues), EXAMPLE_COUNT)
            /\ \A i \in E : examples[i] \in SampleValues
            /\ \A i, j \in E : i < j => FirstRow(examples[i]) < FirstRow(examples[j])
            /\ \A i \in E : \A v \in SampleValues :
                  FirstRow(v) < FirstRow(examples[i]) => \E j \in E : examples[j] = v

C7_Witness ==
    /\ Done
    /\ Categorical
    /\ series.vals = Cities
    /\ examples = <<Stockholm, Malmo, Goteborg>>

\* C8: a second call of analyze_column on the same sample, under any column
\* name and in any state of the shared generator, returns the type summary
\* and the label of the first call, and for a Categorical column its
\* example list as well.
C8_SameSampleSameResult ==
    (Done /\ again) =>
        /\ type_summary = first.type_summary
        /\ analysis_note = first.analysis_note
        /\ Categorical => examples = first.examples

\* A second call under another name whose generated examples differ from the
\* first call's.
C8_Witness ==
    /\ Done
    /\ again
    /\ renamed
    /\ Variable
    /\ examples # first.examples
    /\ Len(first.type_summary) > 1

\* C9: the generator is that of the lowest-numbered rule one of whose tokens
\* occurs in the column name, case ignored; the content rules and the
\* fallback word are used only when no token occurs.
C9_FirstMatchingRule ==
    (Done /\ Variable /\ Len(series.vals) > 0) =>
        \A i \in 1..Len(examples) :
            examples[i] # tom =>
                IF MatchingRules(col_name) # {}
                THEN examples[i].gen = NameRules[LowestRule(col_name)].provider
                ELSE examples[i].gen \in {"uniform", "date", "word"}

\* "Personnummer" has the tokens of rules 6 and 7 and gets rule 6's generator.
C9_Witness ==
    /\ Done
    /\ Variable
    /\ col_name = Personnummer
    /\ MatchingRules(col_name) = {6, 7}
    /\ examples[1].gen = "ssn"

\* C10: every row is counted under exactly one kind, Empty before Numeric
\* before Temporal before Textual; the counts add up to the number of rows
\* and the type summary lists exactly the kinds with a count above zero.
C10_OneKindPerRow ==
    (Done /\ Len(series.vals) > 0) =>
        LET count(t) == counter_get(type_counts, t)
            rows(P(_)) == Cardinality({i \in Rows : P(series.vals[i])})
        IN  /\ count("Tom") = rows(CountedEmpty)
            /\ count("Tal") = rows(Numeric)
            /\ count("Datum") = rows(Temporal)
            /\ count("Text") = rows(Textual)
            /\ count("Tom") + count("Tal") + count("Datum") + count("Text")
                  = Len(series.vals)
            /\ \A i \in 1..Len(type_counts) :
                  /\ type_counts[i].c > 0
                  /\ type_counts[i].t \in {"Tom", "Tal", "Datum", "Text"}
                  /\ \A j \in 1..Len(type_counts) :
                        type_counts[j].t = type_counts[i].t => j = i
            /\ Len(type_summary) = Len(type_counts)
            /\ \A i \in 1..Len(type_summary) : type_summary[i].t = type_counts[i].t
            /\ \A t \in {"Tom", "Tal", "Datum", "Text"} :
                  count(t) > 0 => \E i \in 1..Len(type_summary) : type_summary[i].t = t

\* A missing number (a float), a blank string and one value of each other
\* kind, each counted once.
C10_Witness ==
    /\ Done
    /\ \E i \in Rows : series.vals[i] = NaN
    /\ \E i \in Rows : Blank(series.vals[i])
    /\ counter_get(type_counts, "Tom") = 2
    /\ counter_get(type_counts, "Tal") = 1
    /\ counter_get(type_counts, "Datum") = 1
    /\ counter_get(type_counts, "Text") = 2
=============================================================================
